---- MODULE Spec2Model ----
(***************************************************************************)
(* camino_server: six MCP tools (search_place, query,                      *)
(* spatial_relationship, place_context, journey_planner, get_route), each  *)
(* of which reads the CAMINO_API_KEY secret from its context, builds one   *)
(* request, opens an httpx.AsyncClient, awaits the request, calls          *)
(* raise_for_status() and returns response.json().                         *)
(*                                                                         *)
(* An invocation is a coroutine; its position is pc[i].  The steps are the *)
(* statements of the tool bodies in server.py; the await points are the    *)
(* places where another invocation, the upstream's answer, a transport     *)
(* failure or the runtime's cancellation can come in.                      *)
(***************************************************************************)
EXTENDS Integers, Sequences, FiniteSets, TLC

(***************************************************************************)
(* Python / JSON values, tagged so that values of different types can be   *)
(* compared.  A float is carried as a tagged number.                       *)
(***************************************************************************)
PyNone == <<"none", <<>>>>
PyStr(s) == <<"str", s>>
PyInt(n) == <<"int", n>>
PyFloat(n) == <<"float", n>>
PyBool(b) == <<"bool", b>>
PyList(s) == <<"list", s>>
PyDict(f) == <<"dict", f>>

EmptyDict == <<>>

\* d[k] = v on a dict: a later assignment of the same key wins.
SetItem(d, k, v) == (k :> v) @@ d

(***************************************************************************)
(* Bounds of the model.                                                    *)
(***************************************************************************)
\* Number of tool invocations the hosting runtime runs concurrently.
NInv == 2

Invocations == 1..NInv

ToolNames ==
    {"search_place", "query", "spatial_relationship", "place_context",
     "journey_planner", "get_route"}

SecretName == "CAMINO_API_KEY"


\* Timeout, in seconds, of the client that query opens.
QueryTimeout == 120

(***************************************************************************)
(* The tools' signatures: the default of every parameter that has one, and *)
(* the parameters that have none.                                          *)
(***************************************************************************)
SearchPlaceDefaults ==
    [query |-> PyNone, amenity |-> PyNone, street |-> PyNone, city |-> PyNone,
     county |-> PyNone, state |-> PyNone, country |-> PyNone,
     postalcode |-> PyNone, limit |-> PyInt(10),
     include_photos |-> PyBool(FALSE), photo_radius |-> PyInt(100),
     mode |-> PyStr("basic")]

QueryDefaults ==
    [query |-> PyNone, lat |-> PyNone, lon |-> PyNone, radius |-> PyInt(1000),
     rank |-> PyBool(TRUE), limit |-> PyInt(20), offset |-> PyInt(0),
     answer |-> PyBool(FALSE), time |-> PyNone, osm_ids |-> PyNone,
     mode |-> PyStr("basic")]

SpatialRelationshipDefaults ==
    [include_distance |-> PyBool(TRUE), include_direction |-> PyBool(TRUE),
     include_travel_time |-> PyBool(TRUE), include_description |-> PyBool(TRUE)]

PlaceContextDefaults ==
    [radius |-> PyInt(500), context_query |-> PyNone, time |-> PyNone,
     include_weather |-> PyBool(FALSE), weather_forecast |-> PyStr("daily")]

JourneyPlannerDefaults ==
    [transport_mode |-> PyStr("walking"), time_budget |-> PyNone]

GetRouteDefaults ==
    [mode |-> PyStr("car"), include_geometry |-> PyBool(FALSE),
     include_imagery |-> PyBool(FALSE)]

Defaults(t) ==
    CASE t = "search_place" -> SearchPlaceDefaults
      [] t = "query" -> QueryDefaults
      [] t = "spatial_relationship" -> SpatialRelationshipDefaults
      [] t = "place_context" -> PlaceContextDefaults
      [] t = "journey_planner" -> JourneyPlannerDefaults
      [] t = "get_route" -> GetRouteDefaults

Required(t) ==
    CASE t = "search_place" -> {}
      [] t = "query" -> {}
      [] t = "spatial_relationship" ->
            {"start_lat", "start_lon", "end_lat", "end_lon"}
      [] t = "place_context" -> {"lat", "lon"}
      [] t = "journey_planner" -> {"waypoints"}
      [] t = "get_route" -> {"start_lat", "start_lon", "end_lat", "end_lon"}

\* A call the interpreter accepts: every parameter without a default is
\* passed, and nothing is passed that the signature does not name.
ValidCall(t, kw) ==
    /\ Required(t) \subseteq DOMAIN kw
    /\ DOMAIN kw \subseteq (Required(t) \cup DOMAIN Defaults(t))

\* Binding of a call's keyword arguments to the parameters: what the caller
\* passes wins, every other parameter takes its default.
Bind(t, kw) == kw @@ Defaults(t)

\* Python's truth value of an argument (if x: ...).
Truthy(v) ==
    CASE v[1] = "none" -> FALSE
      [] v[1] = "bool" -> v[2]
      [] v[1] = "int" -> v[2] # 0
      [] v[1] = "float" -> v[2] # 0
      [] v[1] = "str" -> v[2] # ""
      [] v[1] = "list" -> v[2] # <<>>
      [] v[1] = "dict" -> DOMAIN v[2] # {}

(***************************************************************************)
(* Request construction.                                                   *)
(***************************************************************************)
\* AddIfNotNone with the test "if v:" in place of "if v is not None:".
AddIfTruthy(d, k, v) == IF Truthy(v) THEN SetItem(d, k, v) ELSE d

\* if v is not None: d[k] = v
AddIfNotNone(d, k, v) == IF v # PyNone THEN SetItem(d, k, v) ELSE d

JsonHeaders(api_key) ==
    ("X-API-Key" :> api_key) @@ ("Content-Type" :> PyStr("application/json"))

KeyHeaders(api_key) == ("X-API-Key" :> api_key)

SearchPlaceParams(a) ==
    LET p0 == [limit |-> a.limit, include_photos |-> a.include_photos,
               photo_radius |-> a.photo_radius, mode |-> a.mode]
        p1 == AddIfNotNone(p0, "query", a.query)
        p2 == AddIfNotNone(p1, "amenity", a.amenity)
        p3 == AddIfNotNone(p2, "street", a.street)
        p4 == AddIfNotNone(p3, "city", a.city)
        p5 == AddIfNotNone(p4, "county", a.county)
        p6 == AddIfNotNone(p5, "state", a.state)
        p7 == AddIfNotNone(p6, "country", a.country)
    IN  AddIfNotNone(p7, "postalcode", a.postalcode)

QueryParams(a) ==
    LET p0 == [radius |-> a.radius, rank |-> a.rank, limit |-> a.limit,
               offset |-> a.offset, answer |-> a.answer, mode |-> a.mode]
        p1 == AddIfNotNone(p0, "query", a.query)
        p2 == AddIfNotNone(p1, "lat", a.lat)
        p3 == AddIfNotNone(p2, "lon", a.lon)
        p4 == AddIfNotNone(p3, "time", a.time)
    IN  AddIfNotNone(p4, "osm_ids", a.osm_ids)

\* IncludeFields with the tests of travel_time and description chained by
\* elif, so that description is skipped whenever travel_time is taken.
IncludeFieldsElif(a) ==
    LET f0 == <<>>
        f1 == IF Truthy(a.include_distance)
              THEN Append(f0, PyStr("distance")) ELSE f0
        f2 == IF Truthy(a.include_direction)
              THEN Append(f1, PyStr("direction")) ELSE f1
    IN  IF Truthy(a.include_travel_time)
        THEN Append(f2, PyStr("travel_time"))
        ELSE IF Truthy(a.include_description)
             THEN Append(f2, PyStr("description")) ELSE f2

\* include_fields = []; if include_x: include_fields.append("x"); ...
IncludeFields(a) ==
    LET f0 == <<>>
        f1 == IF Truthy(a.include_distance)
              THEN Append(f0, PyStr("distance")) ELSE f0
        f2 == IF Truthy(a.include_direction)
              THEN Append(f1, PyStr("direction")) ELSE f1
        f3 == IF Truthy(a.include_travel_time)
              THEN Append(f2, PyStr("travel_time")) ELSE f2
    IN  IF Truthy(a.include_description)
        THEN Append(f3, PyStr("description")) ELSE f3

SpatialRelationshipBody(a) ==
    [start |-> PyDict([lat |-> a.start_lat, lon |-> a.start_lon]),
     end |-> PyDict([lat |-> a.end_lat, lon |-> a.end_lon]),
     include |-> PyList(IncludeFields(a))]

PlaceContextBody(a) ==
    LET b0 == [location |-> PyDict([lat |-> a.lat, lon |-> a.lon]),
               radius |-> a.radius, include_weather |-> a.include_weather,
               weather_forecast |-> a.weather_forecast]
        b1 == AddIfNotNone(b0, "context", a.context_query)
    IN  AddIfNotNone(b1, "time", a.time)

JourneyPlannerBody(a) ==
    LET c0 == [transport |-> a.transport_mode]
        c1 == AddIfNotNone(c0, "time_budget", a.time_budget)
    IN  [waypoints |-> a.waypoints, constraints |-> PyDict(c1)]

\* GetRouteParams that leaves out a flag that is false, as the other tools
\* leave out an argument that is None.
GetRouteParamsOmitting(a) ==
    LET p0 == [start_lat |-> a.start_lat, start_lon |-> a.start_lon,
               end_lat |-> a.end_lat, end_lon |-> a.end_lon, mode |-> a.mode]
        p1 == AddIfTruthy(p0, "include_geometry", a.include_geometry)
    IN  AddIfTruthy(p1, "include_imagery", a.include_imagery)

GetRouteParams(a) ==
    [start_lat |-> a.start_lat, start_lon |-> a.start_lon,
     end_lat |-> a.end_lat, end_lon |-> a.end_lon, mode |-> a.mode,
     include_geometry |-> a.include_geometry,
     include_imagery |-> a.include_imagery]

\* The arguments of the one client.post / client.get call of tool t.
\* params is the query string, json the body; the one not passed is None.
BuildRequest(t, a, api_key) ==
    CASE t = "search_place" ->
            [method |-> "POST", url |-> "https://api.getcamino.ai/search",
             headers |-> JsonHeaders(api_key),
             params |-> PyDict(SearchPlaceParams(a)), json |-> PyNone]
      [] t = "query" ->
            [method |-> "GET", url |-> "https://api.getcamino.ai/query",
             headers |-> KeyHeaders(api_key),
             params |-> PyDict(QueryParams(a)), json |-> PyNone]
      [] t = "spatial_relationship" ->
            [method |-> "POST", url |-> "https://api.getcamino.ai/relationship",
             headers |-> JsonHeaders(api_key),
             params |-> PyNone, json |-> PyDict(SpatialRelationshipBody(a))]
      [] t = "place_context" ->
            [method |-> "POST", url |-> "https://api.getcamino.ai/context",
             headers |-> JsonHeaders(api_key),
             params |-> PyNone, json |-> PyDict(PlaceContextBody(a))]
      [] t = "journey_planner" ->
            [method |-> "POST", url |-> "https://api.getcamino.ai/journey",
             headers |-> JsonHeaders(api_key),
             params |-> PyNone, json |-> PyDict(JourneyPlannerBody(a))]
      [] t = "get_route" ->
            [method |-> "GET", url |-> "https://api.getcamino.ai/route",
             headers |-> KeyHeaders(api_key),
             params |-> PyDict(GetRouteParams(a)), json |-> PyNone]

\* httpx.AsyncClient(...) of tool t: only query sets a timeout.
ClientTimeout(t) == IF t = "query" THEN PyFloat(QueryTimeout) ELSE PyNone

(***************************************************************************)
(* The upstream's answer.  A body is a sequence of JSON tokens; the        *)
(* upstream serialises a value into it (JsonDumps) and response.json()     *)
(* parses it back (JsonLoads), or fails on a body that is no JSON text.    *)
(***************************************************************************)
LBracket == <<"punct", "[">>
RBracket == <<"punct", "]">>
LBrace == <<"punct", "{">>
RBrace == <<"punct", "}">>
Comma == <<"punct", ",">>
Colon == <<"punct", ":">>

RECURSIVE JsonDumps(_), DumpItems(_), DumpMembers(_, _)

DumpItems(s) ==
    IF s = <<>> THEN <<>>
    ELSE JsonDumps(Head(s))
         \o (IF Tail(s) = <<>> THEN <<>> ELSE <<Comma>>)
         \o DumpItems(Tail(s))

DumpMembers(f, ks) ==
    IF ks = {} THEN <<>>
    ELSE LET k == CHOOSE x \in ks : TRUE
         IN  <<PyStr(k), Colon>> \o JsonDumps(f[k])
             \o (IF ks \ {k} = {} THEN <<>> ELSE <<Comma>>)
             \o DumpMembers(f, ks \ {k})

\* The JSON text of a value, as the upstream writes it.
JsonDumps(v) ==
    CASE v[1] = "none" -> << <<"lit", "null">> >>
      [] v[1] = "bool" -> << <<"lit", IF v[2] THEN "true" ELSE "false">> >>
      [] v[1] = "int" -> << <<"int", v[2]>> >>
      [] v[1] = "float" -> << <<"float", v[2]>> >>
      [] v[1] = "str" -> << v >>
      [] v[1] = "list" -> <<LBracket>> \o DumpItems(v[2]) \o <<RBracket>>
      [] v[1] = "dict" ->
            <<LBrace>> \o DumpMembers(v[2], DOMAIN v[2]) \o <<RBrace>>

ParseFail == [ok |-> FALSE, val |-> PyNone, next |-> 0]

ParseOk(v, n) == [ok |-> TRUE, val |-> v, next |-> n]

RECURSIVE ParseValue(_, _), ParseItems(_, _, _), ParseMembers(_, _, _)

\* The elements of an array after "[", up to and including "]".
ParseItems(ts, p, acc) ==
    LET r == ParseValue(ts, p)
    IN  IF ~r.ok \/ r.next > Len(ts) THEN ParseFail
        ELSE IF ts[r.next] = RBracket
             THEN ParseOk(PyList(Append(acc, r.val)), r.next + 1)
        ELSE IF ts[r.next] = Comma
             THEN ParseItems(ts, r.next + 1, Append(acc, r.val))
        ELSE ParseFail

\* The members of an object after "{", up to and including "}"; a key that
\* occurs twice keeps its last value.
ParseMembers(ts, p, acc) ==
    IF p + 1 > Len(ts) \/ ts[p][1] # "str" \/ ts[p + 1] # Colon THEN ParseFail
    ELSE LET r == ParseValue(ts, p + 2)
             d == SetItem(acc, ts[p][2], r.val)
         IN  IF ~r.ok \/ r.next > Len(ts) THEN ParseFail
             ELSE IF ts[r.next] = RBrace
                  THEN ParseOk(PyDict(d), r.next + 1)
             ELSE IF ts[r.next] = Comma
                  THEN ParseMembers(ts, r.next + 1, d)
             ELSE ParseFail

ParseValue(ts, p) ==
    IF p > Len(ts) THEN ParseFail
    ELSE LET t == ts[p]
         IN  CASE t[1] = "lit" ->
                    (CASE t[2] = "null" -> ParseOk(PyNone, p + 1)
                       [] t[2] = "true" -> ParseOk(PyBool(TRUE), p + 1)
                       [] t[2] = "false" -> ParseOk(PyBool(FALSE), p + 1)
                       [] OTHER -> ParseFail)
               [] t[1] = "int" -> ParseOk(PyInt(t[2]), p + 1)
               [] t[1] = "float" -> ParseOk(PyFloat(t[2]), p + 1)
               [] t[1] = "str" -> ParseOk(PyStr(t[2]), p + 1)
               [] t = LBracket ->
                    IF p + 1 <= Len(ts) /\ ts[p + 1] = RBracket
                    THEN ParseOk(PyList(<<>>), p + 2)
                    ELSE ParseItems(ts, p + 1, <<>>)
               [] t = LBrace ->
                    IF p + 1 <= Len(ts) /\ ts[p + 1] = RBrace
                    THEN ParseOk(PyDict(EmptyDict), p + 2)
                    ELSE ParseMembers(ts, p + 1, EmptyDict)
               [] OTHER -> ParseFail

\* response.json(): the value of a body that is one JSON text, and a
\* failure (JSONDecodeError) on anything else.
JsonLoads(ts) ==
    LET r == ParseValue(ts, 1)
    IN  IF r.ok /\ r.next = Len(ts) + 1 THEN r ELSE ParseFail

\* IsSuccess that takes for a success every status that is no 4xx or 5xx
\* error, so that raise_for_status() lets 3xx answers through.
IsNotError(status) == status < 400

\* httpx's Response.is_success: a 2xx status.
IsSuccess(status) == status >= 200 /\ status <= 299

(***************************************************************************)
(* State.  Everything but clients is local to one invocation: the module   *)
(* keeps no variable of its own besides app.                               *)
(***************************************************************************)
VARIABLES
    pc,        \* pc[i]: where invocation i is in the tool body
    tool,      \* tool[i]: the tool that invocation i runs
    kwargs,    \* kwargs[i]: the arguments the caller passed
    args,      \* args[i]: the parameters after binding
    ctx,       \* ctx[i]: the secrets of the Context handed to invocation i
    api_key,   \* api_key[i]: the local api_key
    request,   \* request[i]: headers, params / body and url, once built
    client,    \* client[i]: the AsyncClient of the with block, 0 when none
    clients,   \* clients[c]: every AsyncClient object: absent, open or closed
    sent,      \* sent[i]: the requests invocation i has put on the wire
    net,       \* net[i]: the state of the exchange with the upstream
    cancelled, \* cancelled[i]: the runtime has cancelled invocation i
    response,  \* response[i]: the local response
    outcome    \* outcome[i]: what the invocation returns or raises

vars ==
    <<pc, tool, kwargs, args, ctx, api_key, request, client, clients, sent,
      net, cancelled, response, outcome>>

NoRequest ==
    [method |-> "", url |-> "", headers |-> EmptyDict, params |-> PyNone,
     json |-> PyNone]

\* A body that is no JSON text has no upstream value.
NotJson == <<"invalid", <<>>>>

NoResponse == [status |-> 0, body |-> <<>>, upstream |-> NotJson]

NoError == [type |-> "", status |-> 0, body |-> <<>>]

Pending == [kind |-> "pending", value |-> PyNone, error |-> NoError]

Return(v) == [kind |-> "return", value |-> v, error |-> NoError]

Raise(type) ==
    [kind |-> "raise", value |-> PyNone,
     error |-> [type |-> type, status |-> 0, body |-> <<>>]]

\* httpx.HTTPStatusError keeps the response it was raised for.
RaiseHTTPStatusError(r) ==
    [kind |-> "raise", value |-> PyNone,
     error |-> [type |-> "HTTPStatusError", status |-> r.status,
                body |-> r.body]]

NoClient == [state |-> "absent", timeout |-> PyNone]

Init ==
    /\ pc = [i \in Invocations |-> "idle"]
    /\ tool = [i \in Invocations |-> ""]
    /\ kwargs = [i \in Invocations |-> EmptyDict]
    /\ args = [i \in Invocations |-> EmptyDict]
    /\ ctx = [i \in Invocations |-> EmptyDict]
    /\ api_key = [i \in Invocations |-> PyNone]
    /\ request = [i \in Invocations |-> NoRequest]
    /\ client = [i \in Invocations |-> 0]
    /\ clients = [c \in Invocations |-> NoClient]
    /\ sent = [i \in Invocations |-> <<>>]
    /\ net = [i \in Invocations |-> "idle"]
    /\ cancelled = [i \in Invocations |-> FALSE]
    /\ response = [i \in Invocations |-> NoResponse]
    /\ outcome = [i \in Invocations |-> Pending]

(***************************************************************************)
(* The steps of a tool body.                                               *)
(***************************************************************************)
\* The runtime calls tool t with keyword arguments kw and a Context whose
\* secrets are secrets.
Call(i, t, kw, secrets) ==
    /\ pc[i] = "idle"
    /\ ValidCall(t, kw)
    /\ pc' = [pc EXCEPT ![i] = "secret"]
    /\ tool' = [tool EXCEPT ![i] = t]
    /\ kwargs' = [kwargs EXCEPT ![i] = kw]
    /\ args' = [args EXCEPT ![i] = Bind(t, kw)]
    /\ ctx' = [ctx EXCEPT ![i] = secrets]
    /\ UNCHANGED <<cancelled, api_key, request, client, clients, sent, net,
                   response, outcome>>

\* ContextGetSecret that falls back to an empty key when the secret is
\* missing, as os.environ.get(name, "") would.
ContextGetSecretOrEmpty(i, name) ==
    IF name \in DOMAIN ctx[i]
    THEN [found |-> TRUE, value |-> ctx[i][name]]
    ELSE [found |-> TRUE, value |-> PyStr("")]

\* ContextGetSecret that reads the secrets of the first invocation's context,
\* as a key cached in a module-level variable would be.
ContextGetSecretCached(i, name) ==
    IF name \in DOMAIN ctx[1]
    THEN [found |-> TRUE, value |-> ctx[1][name]]
    ELSE [found |-> FALSE, value |-> PyNone]

\* context.get_secret(name) of invocation i: the secret's value, or no value
\* (a ValueError) when the context has no such secret.
ContextGetSecret(i, name) ==
    IF name \in DOMAIN ctx[i]
    THEN [found |-> TRUE, value |-> ctx[i][name]]
    ELSE [found |-> FALSE, value |-> PyNone]

\* api_key = context.get_secret("CAMINO_API_KEY")
GetSecret(i) ==
    /\ pc[i] = "secret"
    /\ LET s == ContextGetSecret(i, SecretName)
       IN  IF s.found
           THEN /\ api_key' = [api_key EXCEPT ![i] = s.value]
                /\ pc' = [pc EXCEPT ![i] = "prepare"]
                /\ UNCHANGED outcome
           ELSE /\ outcome' = [outcome EXCEPT ![i] = Raise("ValueError")]
                /\ pc' = [pc EXCEPT ![i] = "done"]
                /\ UNCHANGED api_key
    /\ UNCHANGED <<cancelled, tool, kwargs, args, ctx, request, client,
                   clients, sent, net, response>>

\* headers = ...; params / body = ...; url = ...
Prepare(i) ==
    /\ pc[i] = "prepare"
    /\ request' = [request EXCEPT
                      ![i] = BuildRequest(tool[i], args[i], api_key[i])]
    /\ pc' = [pc EXCEPT ![i] = "open"]
    /\ UNCHANGED <<cancelled, tool, kwargs, args, ctx, api_key, client,
                   clients, sent, net, response, outcome>>

\* NewClient that hands out one module-level client to every invocation.
NewClientPooled(i) == 1

\* httpx.AsyncClient(): a new object on every evaluation, so the client of
\* invocation i is an object of its own.
NewClient(i) == i

\* async with httpx.AsyncClient(...) as client:
OpenClient(i) ==
    /\ pc[i] = "open"
    /\ LET c == NewClient(i)
       IN  /\ client' = [client EXCEPT ![i] = c]
           /\ clients' = [clients EXCEPT
                            ![c] = [state |-> "open",
                                    timeout |-> ClientTimeout(tool[i])]]
    /\ pc' = [pc EXCEPT ![i] = "send"]
    /\ UNCHANGED <<cancelled, tool, kwargs, args, ctx, api_key, request,
                   sent, net, response, outcome>>

\* client.post(url, ...) / client.get(url, ...): the request goes out and the
\* coroutine waits for the answer.
Send(i) ==
    /\ pc[i] = "send"
    /\ sent' = [sent EXCEPT ![i] = Append(@, request[i])]
    /\ net' = [net EXCEPT ![i] = "inflight"]
    /\ pc' = [pc EXCEPT ![i] = "await"]
    /\ UNCHANGED <<cancelled, tool, kwargs, args, ctx, api_key, request,
                   client, clients, response, outcome>>

\* response = await ...: the upstream answers with r.
Receive(i, r) ==
    /\ pc[i] = "await"
    /\ net[i] = "inflight"
    /\ response' = [response EXCEPT ![i] = r]
    /\ net' = [net EXCEPT ![i] = "answered"]
    /\ pc' = [pc EXCEPT ![i] = "check"]
    /\ UNCHANGED <<cancelled, tool, kwargs, args, ctx, api_key, request,
                   client, clients, sent, outcome>>

\* NetworkError that tries the request once more before it gives up.
NetworkErrorRetry(i, type) ==
    /\ pc[i] = "await"
    /\ net[i] = "inflight"
    /\ IF Len(sent[i]) < 2
       THEN /\ pc' = [pc EXCEPT ![i] = "send"]
            /\ net' = [net EXCEPT ![i] = "idle"]
            /\ UNCHANGED outcome
       ELSE /\ outcome' = [outcome EXCEPT ![i] = Raise(type)]
            /\ net' = [net EXCEPT ![i] = "failed"]
            /\ pc' = [pc EXCEPT ![i] = "exit"]
    /\ UNCHANGED <<cancelled, tool, kwargs, args, ctx, api_key, request,
                   client, clients, sent, response>>

\* The await raises a transport error (connection failure, timeout).
NetworkError(i, type) ==
    /\ pc[i] = "await"
    /\ net[i] = "inflight"
    /\ outcome' = [outcome EXCEPT ![i] = Raise(type)]
    /\ net' = [net EXCEPT ![i] = "failed"]
    /\ pc' = [pc EXCEPT ![i] = "exit"]
    /\ UNCHANGED <<cancelled, tool, kwargs, args, ctx, api_key, request,
                   client, clients, sent, response>>

\* Cancel whose CancelledError the tool swallows: the invocation goes on
\* waiting for the answer.
CancelSwallowed(i) ==
    /\ pc[i] = "await"
    /\ net[i] = "inflight"
    /\ ~cancelled[i]
    /\ cancelled' = [cancelled EXCEPT ![i] = TRUE]
    /\ UNCHANGED <<pc, tool, kwargs, args, ctx, api_key, request, client,
                   clients, sent, net, response, outcome>>

\* The runtime cancels the invocation while it waits for the answer:
\* CancelledError is raised at the await and the request is dropped.
Cancel(i) ==
    /\ pc[i] = "await"
    /\ net[i] = "inflight"
    /\ cancelled' = [cancelled EXCEPT ![i] = TRUE]
    /\ outcome' = [outcome EXCEPT ![i] = Raise("CancelledError")]
    /\ net' = [net EXCEPT ![i] = "aborted"]
    /\ pc' = [pc EXCEPT ![i] = "exit"]
    /\ UNCHANGED <<tool, kwargs, args, ctx, api_key, request, client,
                   clients, sent, response>>

\* response.raise_for_status(): HTTPStatusError for every status that is no
\* success; the clients do not follow redirects, so a 3xx answer arrives
\* here as it is.
RaiseForStatus(i) ==
    /\ pc[i] = "check"
    /\ IF IsSuccess(response[i].status)
       THEN /\ pc' = [pc EXCEPT ![i] = "decode"]
            /\ UNCHANGED outcome
       ELSE /\ outcome' = [outcome EXCEPT
                             ![i] = RaiseHTTPStatusError(response[i])]
            /\ pc' = [pc EXCEPT ![i] = "exit"]
    /\ UNCHANGED <<cancelled, tool, kwargs, args, ctx, api_key, request,
                   client, clients, sent, net, response>>

\* ResponseJson that checks the decoded value against the declared return
\* type dict and refuses anything else.
ResponseJsonValidated(r) ==
    LET d == JsonLoads(r.body)
    IN  IF d.ok /\ d.val[1] = "dict" THEN Return(d.val)
        ELSE Raise("JSONDecodeError")

\* The value of "return response.json()".
ResponseJson(r) ==
    LET d == JsonLoads(r.body)
    IN  IF d.ok THEN Return(d.val) ELSE Raise("JSONDecodeError")

\* return response.json()
DecodeJson(i) ==
    /\ pc[i] = "decode"
    /\ outcome' = [outcome EXCEPT ![i] = ResponseJson(response[i])]
    /\ pc' = [pc EXCEPT ![i] = "exit"]
    /\ UNCHANGED <<cancelled, tool, kwargs, args, ctx, api_key, request,
                   client, clients, sent, net, response>>

\* CloseClient without the with block: aclose() is a statement after the
\* request and is skipped when an exception passes.
CloseClientOnReturn(i) ==
    /\ pc[i] = "exit"
    /\ clients' = IF outcome[i].kind = "return"
                  THEN [clients EXCEPT ![client[i]].state = "closed"]
                  ELSE clients
    /\ pc' = [pc EXCEPT ![i] = "done"]
    /\ UNCHANGED <<cancelled, tool, kwargs, args, ctx, api_key, request,
                   client, sent, net, response, outcome>>

\* The end of the with block, on a return and on an exception alike: the
\* client is closed, then the value or the exception reaches the caller.
CloseClient(i) ==
    /\ pc[i] = "exit"
    /\ clients' = [clients EXCEPT ![client[i]].state = "closed"]
    /\ pc' = [pc EXCEPT ![i] = "done"]
    /\ UNCHANGED <<cancelled, tool, kwargs, args, ctx, api_key, request,
                   client, sent, net, response, outcome>>

(***************************************************************************)
(* The inputs: the calls of the runtime, the secrets of its contexts and   *)
(* the answers of the upstream.                                            *)
(***************************************************************************)
\* Every way to pass some of the parameters names, with values from vals.
KwargsOver(names, vals) == UNION {[S -> vals] : S \in SUBSET names}

Strs == {PyStr(""), PyStr("x")}

OptStrs == {PyNone} \cup Strs

OptFloats == {PyNone, PyFloat(0), PyFloat(48)}

Bools == {PyBool(FALSE), PyBool(TRUE)}

Waypoint ==
    PyDict([lat |-> PyFloat(48), lon |-> PyFloat(2), purpose |-> PyStr("x")])

Endpoints ==
    [start_lat |-> PyFloat(48), start_lon |-> PyFloat(2),
     end_lat |-> PyFloat(0), end_lon |-> PyFloat(0)]

\* The calls of tool t with every combination of its optional arguments
\* passed or left out.
AllCalls(t) ==
    CASE t = "search_place" ->
            KwargsOver({"query", "amenity", "street", "city", "county",
                        "state", "country", "postalcode"}, Strs)
      [] t = "query" ->
            {k @@ l : k \in KwargsOver({"query", "time", "osm_ids"}, OptStrs),
                      l \in KwargsOver({"lat", "lon"}, OptFloats)}
      [] t = "spatial_relationship" ->
            {Endpoints @@ k :
                k \in KwargsOver({"include_distance", "include_direction",
                                  "include_travel_time", "include_description"},
                                 Bools)}
      [] t = "place_context" ->
            {[lat |-> PyFloat(0), lon |-> PyFloat(48)] @@ k @@ w :
                k \in KwargsOver({"context_query", "time"}, OptStrs),
                w \in KwargsOver({"include_weather"}, Bools)}
      [] t = "journey_planner" ->
            {[waypoints |-> w] @@ k @@ m :
                w \in {PyList(<<>>), PyList(<<Waypoint, Waypoint>>)},
                k \in KwargsOver({"time_budget"}, OptStrs),
                m \in KwargsOver({"transport_mode"}, {PyStr("cycling")})}
      [] t = "get_route" ->
            {Endpoints @@ m @@ k :
                m \in KwargsOver({"mode"}, {PyStr("car"), PyStr("foot")}),
                k \in KwargsOver({"include_geometry", "include_imagery"},
                                 Bools)}

\* One call of each tool, for the runs with several invocations.
SomeCalls(t) ==
    CASE t = "search_place" -> {[query |-> PyStr("x")]}
      [] t = "query" ->
            {[query |-> PyStr("x"), lat |-> PyFloat(48), lon |-> PyFloat(2)]}
      [] t = "spatial_relationship" -> {Endpoints}
      [] t = "place_context" -> {[lat |-> PyFloat(0), lon |-> PyFloat(48)]}
      [] t = "journey_planner" -> {[waypoints |-> PyList(<<Waypoint>>)]}
      [] t = "get_route" -> {Endpoints @@ [mode |-> PyStr("foot")]}

WithKey(k) == (SecretName :> PyStr(k))

\* Contexts with the secret, without any secret and with another one only.
AllContexts ==
    {EmptyDict, ("OTHER_KEY" :> PyStr("k1")), WithKey("k1"), WithKey("k2"),
     WithKey("")}

SomeContexts == {EmptyDict, WithKey("k1")}

JsonValues ==
    {PyNone, PyBool(TRUE), PyInt(0), PyFloat(1), PyStr(""), PyStr("x"),
     PyList(<<>>), PyDict(EmptyDict),
     PyList(<<PyDict([id |-> PyInt(1)]), PyDict([id |-> PyInt(2)])>>),
     PyDict([error |-> PyStr("x")]),
     PyDict([results |->
                 PyList(<<PyDict([name |-> PyStr("x"),
                                  tags |-> PyList(<<PyStr("x"), PyNone>>)])>>),
             total |-> PyInt(1), answer |-> PyNone])}

\* Bodies that are no JSON text: empty, cut short, with trailing data.
MalformedBodies ==
    {<<>>, <<LBrace>>, <<LBracket, PyInt(1), Comma>>, <<PyInt(1), PyInt(2)>>,
     <<LBrace, PyStr("a"), Colon, PyInt(1), RBracket>>, <<RBrace>>,
     <<LBrace, PyInt(1), Colon, PyInt(1), RBrace>>, << <<"lit", "nul">> >>}

Statuses == {200, 201, 204, 301, 304, 400, 401, 404, 429, 500, 503}

ResponsesOf(statuses, values, malformed) ==
    {[status |-> st, body |-> JsonDumps(v), upstream |-> v] :
        st \in statuses, v \in values}
    \cup {[status |-> st, body |-> b, upstream |-> NotJson] :
            st \in statuses, b \in malformed}

AllResponses == ResponsesOf(Statuses, JsonValues, MalformedBodies)

\* One answer of each kind: a value, an error status, a body that is no JSON.
SomeResponses ==
    ResponsesOf({200, 404}, {PyDict([error |-> PyStr("x")])}, {})
    \cup ResponsesOf({200}, {}, {<<>>})

TransportErrors == {"ConnectError", "ReadTimeout"}

(***************************************************************************)
(* Spec: NInv invocations run concurrently and interleave at every         *)
(* statement.  Each is one call of one of the four tools that take         *)
(* optional arguments; the two others have the same body after the         *)
(* request is built and run in SpecCalls and SpecResponses.                *)
(***************************************************************************)
ConcurrentTools ==
    {"search_place", "query", "place_context", "journey_planner"}

Next ==
    \E i \in Invocations :
        \/ /\ pc[i] = "idle"
           /\ \E t \in ConcurrentTools : \E kw \in SomeCalls(t) :
                 \E secrets \in SomeContexts : Call(i, t, kw, secrets)
        \/ GetSecret(i)
        \/ Prepare(i)
        \/ OpenClient(i)
        \/ Send(i)
        \/ \E r \in SomeResponses : Receive(i, r)
        \/ \E e \in {"ConnectError"} : NetworkError(i, e)
        \/ Cancel(i)
        \/ RaiseForStatus(i)
        \/ DecodeJson(i)
        \/ CloseClient(i)

Spec == Init /\ [][Next]_vars

(***************************************************************************)
(* SpecCalls: one invocation, over every call of every tool.               *)
(***************************************************************************)
NextCalls ==
    \/ /\ pc[1] = "idle"
       /\ \E t \in ToolNames : \E kw \in AllCalls(t) :
             \E secrets \in {WithKey("k1")} : Call(1, t, kw, secrets)
    \/ GetSecret(1)
    \/ Prepare(1)
    \/ OpenClient(1)
    \/ Send(1)
    \/ \E r \in SomeResponses : Receive(1, r)
    \/ \E e \in {"ConnectError"} : NetworkError(1, e)
    \/ Cancel(1)
    \/ RaiseForStatus(1)
    \/ DecodeJson(1)
    \/ CloseClient(1)

SpecCalls == Init /\ [][NextCalls]_vars

(***************************************************************************)
(* SpecResponses: one invocation, over every context and every answer.     *)
(***************************************************************************)
NextResponses ==
    \/ /\ pc[1] = "idle"
       /\ \E t \in ToolNames : \E kw \in SomeCalls(t) :
             \E secrets \in AllContexts : Call(1, t, kw, secrets)
    \/ GetSecret(1)
    \/ Prepare(1)
    \/ OpenClient(1)
    \/ Send(1)
    \/ \E r \in AllResponses : Receive(1, r)
    \/ \E e \in TransportErrors : NetworkError(1, e)
    \/ Cancel(1)
    \/ RaiseForStatus(1)
    \/ DecodeJson(1)
    \/ CloseClient(1)

SpecResponses == Init /\ [][NextResponses]_vars

(***************************************************************************)
(* Properties.                                                             *)
(***************************************************************************)
\* The optional arguments of a tool: the parameters whose default is None.
OptionalParams(t) ==
    CASE t = "search_place" ->
            {"query", "amenity", "street", "city", "county", "state",
             "country", "postalcode"}
      [] t = "query" -> {"query", "lat", "lon", "time", "osm_ids"}
      [] t = "place_context" -> {"context_query", "time"}
      [] t = "journey_planner" -> {"time_budget"}
      [] OTHER -> {}

\* The name under which an optional argument travels.
PayloadKey(n) == IF n = "context_query" THEN "context" ELSE n

\* The dict of a request in which the tool's optional arguments travel.
OptionalPayload(t, req) ==
    CASE t = "search_place" -> req.params[2]
      [] t = "query" -> req.params[2]
      [] t = "place_context" -> req.json[2]
      [] t = "journey_planner" -> req.json[2]["constraints"][2]
      [] OTHER -> EmptyDict

\* The payload of a request: its query parameters or its body.
Payload(req) == IF req.params # PyNone THEN req.params[2] ELSE req.json[2]

\* An argument the caller provided: passed, and not None.
Provided(i, n) == n \in DOMAIN kwargs[i] /\ kwargs[i][n] # PyNone

\* C1: in every request a tool sends, an optional argument that was left
\* out (or passed as None) has no entry, no entry is null, and an optional
\* argument that was provided has an entry with exactly the value passed.
C1_OptionalArguments ==
    \A i \in Invocations : \A k \in 1..Len(sent[i]) :
        LET req == sent[i][k]
            d == OptionalPayload(tool[i], req)
        IN  /\ \A n \in OptionalParams(tool[i]) :
                 /\ Provided(i, n) <=> PayloadKey(n) \in DOMAIN d
                 /\ Provided(i, n) => d[PayloadKey(n)] = kwargs[i][n]
            /\ \A x \in DOMAIN d : d[x] # PyNone
            /\ \A x \in DOMAIN Payload(req) : Payload(req)[x] # PyNone

\* search_place has sent a request for a call that passed city = "" and
\* state = "x" and left the six other optional arguments out.
C1_Witness ==
    /\ tool[1] = "search_place"
    /\ Len(sent[1]) = 1
    /\ kwargs[1] = [city |-> PyStr(""), state |-> PyStr("x")]
    /\ DOMAIN sent[1][1].params[2] =
          {"limit", "include_photos", "photo_radius", "mode", "city", "state"}

FlagFields ==
    << <<"include_distance", "distance">>, <<"include_direction", "direction">>,
       <<"include_travel_time", "travel_time">>,
       <<"include_description", "description">> >>

\* The fields whose flag is true, in the order of FlagFields.
ExpectedInclude(a) ==
    LET on == SelectSeq(FlagFields, LAMBDA p : a[p[1]] = PyBool(TRUE))
    IN  [k \in 1..Len(on) |-> PyStr(on[k][2])]

\* C4: the include list of the body that spatial_relationship sends is the
\* subsequence of distance, direction, travel_time, description whose flags
\* are true, in that order; with all four flags false it is empty.
C4_IncludeList ==
    \A i \in Invocations :
        tool[i] = "spatial_relationship" =>
            \A k \in 1..Len(sent[i]) :
                sent[i][k].json[2]["include"] = PyList(ExpectedInclude(args[i]))

\* spatial_relationship was called with all four flags false and has sent
\* its request, with an empty include list.
C4_Witness ==
    /\ tool[1] = "spatial_relationship"
    /\ \A p \in 1..4 :
          /\ FlagFields[p][1] \in DOMAIN kwargs[1]
          /\ kwargs[1][FlagFields[p][1]] = PyBool(FALSE)
    /\ Len(sent[1]) = 1
    /\ sent[1][1].json[2]["include"] = PyList(<<>>)

GetRouteParamNames ==
    {"start_lat", "start_lon", "end_lat", "end_lon", "mode",
     "include_geometry", "include_imagery"}

\* C7: the request of get_route carries all seven parameters, each with the
\* value the caller passed or, for mode, include_geometry and include_imagery
\* when not passed, with car, false and false.
C7_GetRouteSendsAll ==
    \A i \in Invocations :
        tool[i] = "get_route" =>
            \A k \in 1..Len(sent[i]) :
                LET p == sent[i][k].params[2]
                    d == [mode |-> PyStr("car"),
                          include_geometry |-> PyBool(FALSE),
                          include_imagery |-> PyBool(FALSE)]
                IN  /\ DOMAIN p = GetRouteParamNames
                    /\ \A n \in GetRouteParamNames :
                          p[n] = IF n \in DOMAIN kwargs[i]
                                 THEN kwargs[i][n] ELSE d[n]

\* get_route was called with the four coordinates only and has sent its
\* request.
C7_Witness ==
    /\ tool[1] = "get_route"
    /\ DOMAIN kwargs[1] = {"start_lat", "start_lon", "end_lat", "end_lon"}
    /\ Len(sent[1]) = 1
    /\ sent[1][1].method = "GET"

\* The upstream has answered invocation i with a status outside 200..299.
AnsweredNoSuccess(i) ==
    /\ net[i] = "answered"
    /\ (response[i].status < 200 \/ response[i].status > 299)

\* C2: an answer with a status that is no success (>= 400 in particular)
\* makes the invocation end in an HTTPStatusError that carries the status
\* and the body of the answer; the body is never decoded and nothing is
\* returned.
C2_ErrorStatusRaises ==
    \A i \in Invocations :
        AnsweredNoSuccess(i) =>
            /\ pc[i] \in {"check", "exit", "done"}
            /\ outcome[i].kind # "return"
            /\ pc[i] \in {"exit", "done"} =>
                  /\ outcome[i].kind = "raise"
                  /\ outcome[i].error.type = "HTTPStatusError"
                  /\ outcome[i].error.status = response[i].status
                  /\ outcome[i].error.body = response[i].body
                  /\ outcome[i].value = PyNone

\* An invocation has ended on a 301 answer whose body is JSON text, with an
\* HTTPStatusError.
C2_Witness ==
    /\ pc[1] = "done"
    /\ net[1] = "answered"
    /\ response[1].status = 301
    /\ response[1].upstream = PyDict([error |-> PyStr("x")])
    /\ outcome[1].error.type = "HTTPStatusError"

\* C3: when the answer has a 2xx status and its body is the JSON text of a
\* value, the invocation returns that very value.
C3_ReturnsUpstreamJson ==
    \A i \in Invocations :
        ( /\ pc[i] \in {"exit", "done"}
          /\ net[i] = "answered"
          /\ response[i].status >= 200
          /\ response[i].status <= 299
          /\ response[i].upstream # NotJson )
        => /\ outcome[i].kind = "return"
           /\ outcome[i].value = response[i].upstream
           /\ outcome[i].error = NoError

\* search_place has returned a list of two records, the upstream's value.
C3_Witness ==
    /\ pc[1] = "done"
    /\ tool[1] = "search_place"
    /\ response[1].status = 200
    /\ response[1].upstream =
          PyList(<<PyDict([id |-> PyInt(1)]), PyDict([id |-> PyInt(2)])>>)
    /\ outcome[1].kind = "return"
    /\ outcome[1].value[2][2] = PyDict([id |-> PyInt(2)])

\* C5: an invocation that has a request on the wire has read its key from
\* the secret CAMINO_API_KEY of its context before, and the request carries
\* that value as X-API-Key; an invocation whose context lacks the secret
\* sends nothing and ends in an error.
C5_KeyBeforeRequest ==
    \A i \in Invocations :
        /\ sent[i] # <<>> =>
              /\ "CAMINO_API_KEY" \in DOMAIN ctx[i]
              /\ api_key[i] = ctx[i]["CAMINO_API_KEY"]
              /\ \A k \in 1..Len(sent[i]) :
                    /\ "X-API-Key" \in DOMAIN sent[i][k].headers
                    /\ sent[i][k].headers["X-API-Key"] =
                          ctx[i]["CAMINO_API_KEY"]
        /\ (pc[i] # "idle" /\ "CAMINO_API_KEY" \notin DOMAIN ctx[i]) =>
              /\ sent[i] = <<>>
              /\ net[i] = "idle"
              /\ client[i] = 0
              /\ pc[i] \in {"secret", "done"}
              /\ pc[i] = "done" => outcome[i].kind = "raise"

\* An invocation whose context holds another secret only has ended in a
\* ValueError without a request.
C5_Witness ==
    /\ pc[1] = "done"
    /\ DOMAIN ctx[1] = {"OTHER_KEY"}
    /\ outcome[1].error.type = "ValueError"
    /\ sent[1] = <<>>

\* Method and url of each tool.
Endpoint(t) ==
    CASE t = "search_place" -> <<"POST", "https://api.getcamino.ai/search">>
      [] t = "query" -> <<"GET", "https://api.getcamino.ai/query">>
      [] t = "spatial_relationship" ->
            <<"POST", "https://api.getcamino.ai/relationship">>
      [] t = "place_context" -> <<"POST", "https://api.getcamino.ai/context">>
      [] t = "journey_planner" -> <<"POST", "https://api.getcamino.ai/journey">>
      [] t = "get_route" -> <<"GET", "https://api.getcamino.ai/route">>

\* Invocation i has ended after a failure of its request.
EndedInFailure(i) ==
    /\ pc[i] = "done"
    /\ \/ net[i] = "failed"
       \/ AnsweredNoSuccess(i)
       \/ net[i] = "answered" /\ response[i].upstream = NotJson

\* C6: an invocation sends at most one request, with the method and the
\* path of its tool; after a failure (status, transport, decoding) it has
\* still sent one request only and ends in that error.
C6_SingleRequest ==
    \A i \in Invocations :
        /\ Len(sent[i]) <= 1
        /\ \A k \in 1..Len(sent[i]) :
              <<sent[i][k].method, sent[i][k].url>> = Endpoint(tool[i])
        /\ net[i] # "idle" => Len(sent[i]) = 1
        /\ EndedInFailure(i) =>
              /\ outcome[i].kind = "raise"
              /\ net[i] = "failed" => outcome[i].error.type \in TransportErrors
              /\ AnsweredNoSuccess(i) =>
                    outcome[i].error.type = "HTTPStatusError"
              /\ (net[i] = "answered" /\ ~AnsweredNoSuccess(i)) =>
                    outcome[i].error.type = "JSONDecodeError"

\* query has ended in a ReadTimeout after one GET.
C6_Witness ==
    /\ pc[1] = "done"
    /\ tool[1] = "query"
    /\ net[1] = "failed"
    /\ outcome[1].error.type = "ReadTimeout"
    /\ Len(sent[1]) = 1

\* C9: an invocation cancelled while its request is in flight has its
\* request aborted, holds no response, ends in CancelledError without a
\* value, and has closed its client when it ends.
C9_Cancellation ==
    \A i \in Invocations :
        cancelled[i] =>
            /\ net[i] = "aborted"
            /\ response[i] = NoResponse
            /\ outcome[i].kind = "raise"
            /\ outcome[i].error.type = "CancelledError"
            /\ outcome[i].value = PyNone
            /\ pc[i] \in {"exit", "done"}
            /\ pc[i] = "done" => clients[client[i]].state = "closed"

\* A cancelled invocation has ended, its client closed.
C9_Witness ==
    /\ cancelled[1]
    /\ pc[1] = "done"
    /\ Len(sent[1]) = 1
    /\ clients[client[1]].state = "closed"

\* C8: an invocation that opened a client and has ended, whatever its
\* outcome, has closed that client; a client is open only while its own
\* invocation is inside the with block, and no two invocations have the
\* same client.
C8_ClientReleased ==
    /\ \A i \in Invocations :
          /\ (pc[i] = "done" /\ client[i] # 0) =>
                clients[client[i]].state = "closed"
          /\ pc[i] \in {"send", "await", "check", "decode", "exit"} =>
                clients[client[i]].state = "open"
          /\ \A j \in Invocations \ {i} :
                client[i] # 0 => client[i] # client[j]
    /\ \A c \in DOMAIN clients :
          clients[c].state = "open" =>
              \E i \in Invocations :
                  /\ client[i] = c
                  /\ pc[i] \in {"send", "await", "check", "decode", "exit"}

\* One invocation has ended in an HTTPStatusError and another was cancelled
\* and has ended; each has closed its own client.
C8_Witness ==
    \E i, j \in Invocations :
        /\ pc[i] = "done" /\ pc[j] = "done"
        /\ outcome[i].error.type = "HTTPStatusError"
        /\ outcome[j].error.type = "CancelledError"
        /\ client[i] # 0 /\ client[j] # 0 /\ client[i] # client[j]
        /\ clients[client[i]].state = "closed"
        /\ clients[client[j]].state = "closed"

\* Everything that belongs to invocation i: its locals, its context, its
\* exchange with the upstream and the client object it creates.
Local(i) ==
    <<pc[i], tool[i], kwargs[i], args[i], ctx[i], api_key[i], request[i],
      client[i], clients[i], sent[i], net[i], cancelled[i], response[i],
      outcome[i]>>

\* What invocation i was given: its call, its context and what the network
\* and the runtime did to its request.
Given(i) ==
    <<tool[i], kwargs[i], ctx[i], net[i], cancelled[i], response[i]>>

\* The request and the outcome of invocation i follow from what it was
\* given alone.
OwnInputsOnly(i) ==
    /\ api_key[i] # PyNone =>
          /\ "CAMINO_API_KEY" \in DOMAIN ctx[i]
          /\ api_key[i] = ctx[i]["CAMINO_API_KEY"]
    /\ request[i] # NoRequest =>
          /\ "CAMINO_API_KEY" \in DOMAIN ctx[i]
          /\ request[i] = BuildRequest(tool[i], Bind(tool[i], kwargs[i]),
                                       ctx[i]["CAMINO_API_KEY"])
    /\ \A k \in 1..Len(sent[i]) : sent[i][k] = request[i]
    /\ (pc[i] = "done" /\ "CAMINO_API_KEY" \notin DOMAIN ctx[i]) =>
          /\ outcome[i] = Raise("ValueError")
          /\ sent[i] = <<>>
    /\ (pc[i] = "done" /\ net[i] = "answered") =>
          outcome[i] = IF response[i].status \in 200..299
                       THEN ResponseJson(response[i])
                       ELSE RaiseHTTPStatusError(response[i])
    /\ (pc[i] = "done" /\ net[i] = "aborted") =>
          outcome[i] = Raise("CancelledError")
    /\ client[i] \in {0, i}

\* Two invocations that have ended and were given the same have sent the
\* same and ended the same.
SameGivenSameResult ==
    \A i, j \in Invocations :
        (pc[i] = "done" /\ pc[j] = "done" /\ Given(i) = Given(j)) =>
            /\ sent[i] = sent[j]
            /\ net[i] # "failed" => outcome[i] = outcome[j]

\* A step is the step of one invocation and changes nothing that belongs
\* to another.
OneInvocationSteps ==
    Cardinality({i \in Invocations : Local(i)' # Local(i)}) <= 1

\* C10: under every interleaving, the request and the outcome of an
\* invocation are those its own arguments, its own secret and its own answer
\* determine, and no step of one invocation changes anything of another.
C10_Isolation ==
    /\ [](\A i \in Invocations : OwnInputsOnly(i))
    /\ []SameGivenSameResult
    /\ [][OneInvocationSteps]_vars

\* Two invocations of the same tool, one with the secret and one without,
\* have run interleaved (the second was called while the first was waiting
\* for its answer, and ended first); the first has returned its answer.
C10_Witness ==
    /\ pc[1] = "done" /\ pc[2] = "done"
    /\ tool[1] = "journey_planner" /\ tool[2] = "journey_planner"
    /\ outcome[1].kind = "return"
    /\ outcome[2] = Raise("ValueError")
    /\ sent[1] # <<>> /\ sent[2] = <<>>

====
